---- MODULE Spec2Model ----
(***************************************************************************)
(* Model of src/wasm/grapheme_wasm.c: the big-integer handle shim.         *)
(*                                                                         *)
(* The C heap is a map from addresses to blocks.  Every C function is an   *)
(* operator that takes the machine state m = [heap, log, ub, ret] and      *)
(* returns the machine state after the call; the actions apply these       *)
(* operators for a caller that respects the documented contract (sizes     *)
(* within the contract, destroy once, no use after destroy).               *)
(*                                                                         *)
(* Sizes are counted in units of sizeof(int) bytes: on the wasm32 target   *)
(* size_t has 32 bits and int has 4 bytes, so sizeof(int) * n evaluated in *)
(* size_t is 4 * (n mod 2^30) bytes, i.e. (n mod 2^30) units.              *)
(***************************************************************************)
EXTENDS Integers, Sequences, FiniteSets, TLC

\* ------------------------------------------------------------------ bounds
\* Heap addresses are 1..MaxAddr.
MaxAddr == 4
\* The memory the allocator can hand out, in int units.
HeapUnits == 10

\* ------------------------------------------------------- program constants
NULL == 0
\* The sentinel of grapheme_bigint_external_init's allocated_words.
SENTINEL == -1
\* 2^32 / sizeof(int): the number of int units at which sizeof(int) * n
\* wraps around in a 32-bit size_t.
SIZE_WRAP == 1073741824
\* sizeof(grapheme_bigint) in int units: three ints and a 32-bit pointer.
SIZEOF_BIGINT == 4

Addr == 1..MaxAddr

\* Inputs of the caller.
Signs == {-1, 0, 1}
WordCounts == {0, 1, SIZE_WRAP}
AllocArgs == {SENTINEL, 2}
\* Word values the caller stores, and the slots (0-based) it stores them in.
Word == {0, 1}
Slots == {0, 1}
\* Values an uninitialised int may hold, and seeds of uninitialised buffers
\* (slot i of a fresh buffer holds binary digit i of the seed).
Junk == {-2, 1}
Seeds == {1, 2}
\* The environment's choices during one create: whether memory is exhausted
\* at the first and at the second malloc, and what the fresh blocks hold
\* (choices nothing can observe are not enumerated).
Envs ==
    {[oom1 |-> TRUE, oom2 |-> FALSE, junk |-> 1, seed |-> 1]}
    \cup {[oom1 |-> FALSE, oom2 |-> TRUE, junk |-> 1, seed |-> 1]}
    \cup [oom1 : {FALSE}, oom2 : {FALSE}, junk : Junk, seed : Seeds]

VARIABLES
    heap,      \* Addr -> block: free, a grapheme_bigint record, or a word buffer
    zeroNull,  \* the build's malloc(0): TRUE when it returns a null pointer
    owned,     \* caller's view: handle -> arguments of the create that made it
    last,      \* the last call: operation, arguments, return value, heap events
    ub         \* undefined behaviour has happened (the run stops there)

vars == <<heap, zeroNull, owned, last, ub>>

\* --------------------------------------------------------------- the heap
FreeBlock == [kind |-> "free"]
NoArgs == <<>>

Live(hp) == {a \in Addr : hp[a].kind # "free"}

\* The int units a block occupies.
Units(blk) ==
    IF blk.kind = "bigint" THEN SIZEOF_BIGINT
    ELSE IF blk.kind = "words" THEN Len(blk.data)
    ELSE 0

RECURSIVE UsedUpTo(_, _)
UsedUpTo(hp, a) == IF a = 0 THEN 0 ELSE Units(hp[a]) + UsedUpTo(hp, a - 1)
Used(hp) == UsedUpTo(hp, MaxAddr)

Min(S) == CHOOSE x \in S : \A y \in S : x <= y

\* struct grapheme_bigint, as malloc returns it: every field indeterminate.
UninitBigint(j) ==
    [kind |-> "bigint", sign |-> j, word_count |-> j, allocated_words |-> j,
     words |-> NULL]

\* An int buffer as malloc returns it: n indeterminate words.
UninitWords(seed, n) ==
    [kind |-> "words", data |-> [i \in 1..n |-> (seed \div (2 ^ (i - 1))) % 2]]

\* sizeof(int) * n in size_t, in int units.
MulSizeofInt(n) == n % SIZE_WRAP

Event(ev, units, ptr, oom) == [ev |-> ev, units |-> units, ptr |-> ptr, oom |-> oom]

\* malloc(units): a null pointer when memory is exhausted (oom, chosen by the
\* environment, or no room left), for a zero-size request either a null
\* pointer or a fresh block (implementation-defined), else a fresh block.
\* The block is the lowest free address (first fit).
malloc(m, units, oom, init) ==
    LET free == Addr \ Live(m.heap)
        exhausted == oom \/ free = {} \/ Used(m.heap) + units > HeapUnits
        p == IF exhausted \/ (units = 0 /\ zeroNull) THEN NULL ELSE Min(free)
    IN  [m EXCEPT !.heap = IF p = NULL THEN @ ELSE [@ EXCEPT ![p] = init],
                  !.log = Append(@, Event("malloc", units, p, exhausted)),
                  !.ret = p]

\* free(p): no-op on a null pointer; releasing a block that is not live is
\* undefined.
free(m, p) ==
    [m EXCEPT !.heap = IF p \in Live(m.heap) THEN [@ EXCEPT ![p] = FreeBlock] ELSE @,
              !.log = Append(@, Event("free", 0, p, FALSE)),
              !.ub = @ \/ (p # NULL /\ p \notin Live(m.heap))]

IsBigint(m, p) == p \in Addr /\ m.heap[p].kind = "bigint"

\* bigint->field = v; a store through a pointer to no live record is undefined.
Store(m, p, field, v) ==
    IF IsBigint(m, p)
    THEN [m EXCEPT !.heap = [@ EXCEPT ![p] = [@ EXCEPT ![field] = v]]]
    ELSE [m EXCEPT !.ub = TRUE]

\* bigint->field; a load through a pointer to no live record is undefined.
Load(m, p, field) == IF IsBigint(m, p) THEN m.heap[p][field] ELSE NULL
Touch(m, p) == IF IsBigint(m, p) THEN m ELSE [m EXCEPT !.ub = TRUE]

Machine == [heap |-> heap, log |-> <<>>, ub |-> ub, ret |-> NULL]

\* ------------------------------------------------------- the C functions
\* Variants of the functions below, each with one plausible slip.
\* The two int fields are stored into each other's place.
init_swapped_fields(m, sign, word_count, allocated_words, env) ==
    LET m1 == malloc(m, SIZEOF_BIGINT, env.oom1, UninitBigint(env.junk))
        bigint == m1.ret
    IN  IF bigint = NULL THEN [m1 EXCEPT !.ret = NULL]
        ELSE
          LET m2 == Store(m1, bigint, "sign", word_count)
              m3 == Store(m2, bigint, "word_count", sign)
              aw == IF allocated_words = SENTINEL THEN word_count ELSE allocated_words
              units == MulSizeofInt(aw)
              m4 == malloc(m3, units, env.oom2, UninitWords(env.seed, units))
              m5 == Store(m4, bigint, "words", m4.ret)
          IN  IF Load(m5, bigint, "words") = NULL
              THEN [free(Touch(m5, bigint), bigint) EXCEPT !.ret = NULL]
              ELSE [m5 EXCEPT !.ret = bigint]

\* The record is not released when the buffer allocation fails.
init_leaks_record(m, sign, word_count, allocated_words, env) ==
    LET m1 == malloc(m, SIZEOF_BIGINT, env.oom1, UninitBigint(env.junk))
        bigint == m1.ret
    IN  IF bigint = NULL THEN [m1 EXCEPT !.ret = NULL]
        ELSE
          LET m2 == Store(m1, bigint, "sign", sign)
              m3 == Store(m2, bigint, "word_count", word_count)
              aw == IF allocated_words = SENTINEL THEN word_count ELSE allocated_words
              units == MulSizeofInt(aw)
              m4 == malloc(m3, units, env.oom2, UninitWords(env.seed, units))
              m5 == Store(m4, bigint, "words", m4.ret)
          IN  IF Load(m5, bigint, "words") = NULL
              THEN [m5 EXCEPT !.ret = NULL]
              ELSE [m5 EXCEPT !.ret = bigint]

\* The result of the first malloc is not checked.
init_unchecked_record(m, sign, word_count, allocated_words, env) ==
    LET m1 == malloc(m, SIZEOF_BIGINT, env.oom1, UninitBigint(env.junk))
        bigint == m1.ret
        m2 == Store(m1, bigint, "sign", sign)
        m3 == Store(m2, bigint, "word_count", word_count)
        aw == IF allocated_words = SENTINEL THEN word_count ELSE allocated_words
        units == MulSizeofInt(aw)
        m4 == malloc(m3, units, env.oom2, UninitWords(env.seed, units))
        m5 == Store(m4, bigint, "words", m4.ret)
    IN  IF Load(m5, bigint, "words") = NULL
        THEN [free(Touch(m5, bigint), bigint) EXCEPT !.ret = NULL]
        ELSE [m5 EXCEPT !.ret = bigint]

\* The getter clears the field it has read.
get_sign_clearing(m, bigint) ==
    [Store(Touch(m, bigint), bigint, "sign", 0) EXCEPT !.ret = Load(m, bigint, "sign")]

\* The record is released before its words pointer is read.
free_record_first(m, bigint) ==
    LET m1 == free(Touch(m, bigint), bigint)
    IN  [free(Touch(m1, bigint), Load(m1, bigint, "words")) EXCEPT !.ret = NULL]

\* grapheme_bigint_external_init(sign, word_count, allocated_words), under
\* the environment's choices env for this call.
grapheme_bigint_external_init(m, sign, word_count, allocated_words, env) ==
    LET m1 == malloc(m, SIZEOF_BIGINT, env.oom1, UninitBigint(env.junk))
        bigint == m1.ret
    IN  IF bigint = NULL THEN [m1 EXCEPT !.ret = NULL]
        ELSE
          LET m2 == Store(m1, bigint, "sign", sign)
              m3 == Store(m2, bigint, "word_count", word_count)
              aw == IF allocated_words = SENTINEL THEN word_count ELSE allocated_words
              units == MulSizeofInt(aw)
              m4 == malloc(m3, units, env.oom2, UninitWords(env.seed, units))
              m5 == Store(m4, bigint, "words", m4.ret)
          IN  IF Load(m5, bigint, "words") = NULL
              THEN [free(Touch(m5, bigint), bigint) EXCEPT !.ret = NULL]
              ELSE [m5 EXCEPT !.ret = bigint]

\* grapheme_bigint_get_words(bigint)
grapheme_bigint_get_words(m, bigint) ==
    [Touch(m, bigint) EXCEPT !.ret = Load(m, bigint, "words")]

\* grapheme_bigint_get_sign(bigint)
grapheme_bigint_get_sign(m, bigint) ==
    [Touch(m, bigint) EXCEPT !.ret = Load(m, bigint, "sign")]

\* grapheme_bigint_get_word_count(bigint)
grapheme_bigint_get_word_count(m, bigint) ==
    [Touch(m, bigint) EXCEPT !.ret = Load(m, bigint, "word_count")]

\* grapheme_free_bigint(bigint)
grapheme_free_bigint(m, bigint) ==
    LET m1 == free(Touch(m, bigint), Load(m, bigint, "words"))
    IN  [free(m1, bigint) EXCEPT !.ret = NULL]

\* ---------------------------------------------------------------- caller
\* The capacity the caller asked for.
Capacity(args) == IF args[3] = SENTINEL THEN args[2] ELSE args[3]

Handles == {h \in Addr : owned[h] # NoArgs}

\* The buffer of handle h as the caller sees it through get_words.
Buffer(h) == heap[heap[h].words].data

Call(op, args, m, old) ==
    [op |-> op, args |-> args, ret |-> m.ret, log |-> m.log, pre |-> Live(heap),
     old |-> old]

Init ==
    /\ heap = [a \in Addr |-> FreeBlock]
    /\ zeroNull \in BOOLEAN
    /\ owned = [a \in Addr |-> NoArgs]
    /\ last = [op |-> "none", args |-> <<>>, ret |-> NULL, log |-> <<>>, pre |-> {},
               old |-> <<>>]
    /\ ub = FALSE

\* A call returns: the machine state m the function produced becomes the
\* program's state, and the caller notes the handle it got or gave up.
Return(op, args, m) ==
    /\ heap' = m.heap
    /\ ub' = m.ub
    /\ last' = Call(op, args, m, <<>>)
    /\ owned' = IF op = "init" /\ m.ret # NULL THEN [owned EXCEPT ![m.ret] = args]
                ELSE IF op = "free" THEN [owned EXCEPT ![args[1]] = NoArgs]
                ELSE owned
    /\ UNCHANGED zeroNull

\* The caller creates a handle, within the contract: word_count >= 0 and
\* allocated_words either the sentinel or >= word_count.  It does so while
\* the heap has addresses left for a record and a buffer.
Create ==
    /\ ~ub
    /\ Cardinality(Addr \ Live(heap)) >= 2
    /\ \E sign \in Signs, word_count \in WordCounts, allocated_words \in AllocArgs,
          env \in Envs :
         /\ allocated_words = SENTINEL \/ allocated_words >= word_count
         /\ Return("init", <<sign, word_count, allocated_words>>,
                   grapheme_bigint_external_init(Machine, sign, word_count,
                                                 allocated_words, env))

GetWords ==
    /\ ~ub
    /\ \E h \in Handles :
         Return("get_words", <<h>>, grapheme_bigint_get_words(Machine, h))

GetSign ==
    /\ ~ub
    /\ \E h \in Handles :
         Return("get_sign", <<h>>, grapheme_bigint_get_sign(Machine, h))

GetWordCount ==
    /\ ~ub
    /\ \E h \in Handles :
         Return("get_word_count", <<h>>, grapheme_bigint_get_word_count(Machine, h))

\* The caller destroys a handle it holds, once.
Destroy ==
    /\ ~ub
    /\ \E h \in Handles :
         Return("free", <<h>>, grapheme_free_bigint(Machine, h))

\* The external caller writes v to slot i (0-based) of the buffer that
\* get_words returns, i below the capacity it asked for and inside the block
\* the allocator handed out (a write beyond it is not modelled).
WriteWord ==
    /\ ~ub
    /\ \E h \in Handles, i \in Slots, v \in Word :
         /\ i < Capacity(owned[h])
         /\ LET m == grapheme_bigint_get_words(Machine, h)
                p == m.ret
            IN  /\ p \in Addr
                /\ m.heap[p].kind = "words"
                /\ i < Len(m.heap[p].data)
                /\ heap' = [m.heap EXCEPT ![p].data[i + 1] = v]
                /\ ub' = m.ub
                /\ last' = Call("write", <<h, i, v>>, m, m.heap[p].data)
    /\ UNCHANGED <<zeroNull, owned>>

Next ==
    \/ Create
    \/ GetWords
    \/ GetSign
    \/ GetWordCount
    \/ Destroy
    \/ WriteWord

Spec == Init /\ [][Next]_vars

\* ------------------------------------------------------------ properties
IsMalloc(e) == e.ev = "malloc"
Getters == {"get_words", "get_sign", "get_word_count"}
ShimOps == Getters \cup {"init", "free"}

\* C1: when both allocations of a create succeed it returns a non-null
\* handle, and from then until the handle is destroyed get_sign returns the
\* sign and get_word_count the word_count the create was given, on every call.
C1_GettersReturnCreateArgs ==
    /\ (/\ last.op = "init"
        /\ Len(last.log) = 2
        /\ last.log[1].ptr # NULL
        /\ last.log[2].ptr # NULL)
       => /\ last.ret # NULL
          /\ last.ret \in Handles
          /\ owned[last.ret] = last.args
    /\ \A h \in Handles :
         /\ grapheme_bigint_get_sign(Machine, h).ret = owned[h][1]
         /\ grapheme_bigint_get_word_count(Machine, h).ret = owned[h][2]
    /\ last.op = "get_sign" => last.ret = owned[last.args[1]][1]
    /\ last.op = "get_word_count" => last.ret = owned[last.args[1]][2]

\* A get_sign call on a handle created with sign -1, word_count 1 and
\* allocated_words 2, made after the caller has written to its buffer.
C1_Witness ==
    /\ last.op = "get_sign"
    /\ last.ret = -1
    /\ owned[last.args[1]] = <<-1, 1, 2>>
    /\ Buffer(last.args[1]) = <<1, 1>>

\* C2: when the record was allocated and the buffer allocation fails, create
\* returns null having released the record: the live allocations after the
\* call are those before it.
C2_NoLeakOnBufferFailure ==
    (/\ last.op = "init"
     /\ Len(last.log) >= 2
     /\ last.log[1].ptr # NULL
     /\ last.log[2].ptr = NULL)
    => /\ last.ret = NULL
       /\ Len(last.log) = 3
       /\ last.log[3] = Event("free", 0, last.log[1].ptr, FALSE)
       /\ Live(heap) = last.pre
       /\ ~ub

\* A create whose buffer allocation failed for lack of memory while another
\* handle was live.
C2_Witness ==
    /\ last.op = "init"
    /\ Len(last.log) = 3
    /\ last.log[1].ptr # NULL
    /\ last.log[2].oom
    /\ last.ret = NULL
    /\ Handles # {}

\* C3: destroy releases the word buffer and then the record, each once and
\* without touching the record after its release, and the live allocations
\* are always exactly the records and buffers of the handles the caller
\* holds: nothing a create allocated outlives its destroy.
C3_DestroyReleasesBoth ==
    /\ last.op = "free"
       => LET h == last.args[1]
          IN  /\ Len(last.log) = 2
              /\ last.log[1].ev = "free"
              /\ last.log[1].ptr \in last.pre \ {h}
              /\ last.log[2] = Event("free", 0, h, FALSE)
              /\ h \in last.pre
              /\ Live(heap) = last.pre \ {h, last.log[1].ptr}
    /\ ~ub
    /\ Live(heap) = Handles \cup {heap[h].words : h \in Handles}

\* A destroy of a handle with a two-slot buffer that leaves the heap empty.
C3_Witness ==
    /\ last.op = "free"
    /\ Cardinality(last.pre) = 2
    /\ Live(heap) = {}

\* C4 (as claimed): a successful create with allocated_words = -1 yields a
\* buffer of exactly word_count slots, and with any other allocated_words a
\* buffer of allocated_words slots.
C4_BufferLengthIsCapacity ==
    (last.op = "init" /\ last.ret # NULL)
    => Len(Buffer(last.ret)) =
         (IF last.args[3] = SENTINEL THEN last.args[2] ELSE last.args[3])

\* C5 (as claimed): in every live handle the stored allocated_words is a
\* defined non-negative integer >= word_count that equals the length of the
\* buffer, and equals word_count after a create with the sentinel.
C5_AllocatedWordsField ==
    \A h \in Handles :
      /\ heap[h].allocated_words >= 0
      /\ heap[h].allocated_words >= heap[h].word_count
      /\ heap[h].allocated_words = Len(Buffer(h))
      /\ owned[h][3] = SENTINEL => heap[h].allocated_words = owned[h][2]

\* C6 (as claimed): create(0, 0, -1) yields a non-null handle with a buffer
\* of length 0 whenever memory is not exhausted.
C6_ZeroValueCreate ==
    (/\ last.op = "init"
     /\ last.args = <<0, 0, SENTINEL>>
     /\ \A k \in 1..Len(last.log) : ~last.log[k].oom)
    => /\ last.ret # NULL
       /\ Len(Buffer(last.ret)) = 0

\* C7 (as claimed): get_words returns on every call the handle's own buffer
\* of exactly C slots, C the capacity asked for; a value written to slot i is
\* the value slot i holds afterwards, and no other slot changes.
C7_WordsBuffer ==
    /\ \A h \in Handles :
         LET p == grapheme_bigint_get_words(Machine, h).ret
         IN  /\ p = heap[h].words
             /\ p \in Live(heap) \ Handles
             /\ heap[p].kind = "words"
             /\ Len(heap[p].data) = Capacity(owned[h])
             /\ \A g \in Handles \ {h} : heap[g].words # p
    /\ last.op = "get_words" => last.ret = heap[last.args[1]].words
    /\ last.op = "write"
       => LET b == Buffer(last.args[1])
          IN  /\ last.ret = heap[last.args[1]].words
              /\ b[last.args[2] + 1] = last.args[3]
              /\ Len(b) = Len(last.old)
              /\ \A j \in 1..Len(b) : j # last.args[2] + 1 => b[j] = last.old[j]

\* C8: create returns null exactly when one of its allocations fails; when
\* the record allocation fails nothing else is attempted or written, and a
\* successful create makes two allocations, the record and then the buffer,
\* both live on return.
C8_NullIffAllocationFails ==
    last.op = "init"
    => /\ Len(last.log) >= 1
       /\ IsMalloc(last.log[1])
       /\ last.log[1].units = SIZEOF_BIGINT
       /\ last.ret = NULL
          <=> \E k \in 1..Len(last.log) :
                IsMalloc(last.log[k]) /\ last.log[k].ptr = NULL
       /\ last.log[1].ptr = NULL
          => /\ Len(last.log) = 1
             /\ Live(heap) = last.pre
             /\ ~ub
       /\ last.ret # NULL
          => /\ Len(last.log) = 2
             /\ IsMalloc(last.log[2])
             /\ last.log[1].ptr = last.ret
             /\ last.log[2].ptr = heap[last.ret].words
             /\ last.log[1].ptr # last.log[2].ptr
             /\ Live(heap) = last.pre \cup {last.log[1].ptr, last.log[2].ptr}
             /\ last.pre \cap {last.log[1].ptr, last.log[2].ptr} = {}

\* A create that failed at the record allocation while a handle was live.
C8_Witness ==
    /\ last.op = "init"
    /\ Len(last.log) = 1
    /\ last.log[1].ptr = NULL
    /\ last.ret = NULL
    /\ Handles # {}

\* C9: the accessors change nothing in the heap, and a create, an accessor
\* or a destroy leaves the record and the buffer contents of every other
\* live handle as they were.
C9_Frame ==
    [][/\ last'.op \in Getters => (heap' = heap /\ ub' = ub)
       /\ last'.op \in ShimOps
          => \A h \in Handles :
               (last'.op = "free" => h # last'.args[1])
               => /\ heap'[h] = heap[h]
                  /\ heap'[heap[h].words] = heap[heap[h].words]]_vars

\* A get_sign call made while the caller holds two handles.
C9_Witness ==
    /\ last.op = "get_sign"
    /\ Cardinality(Handles) = 2
    /\ \E h \in Handles : Len(Buffer(h)) = 2

\* C10 (as claimed): the size create requests for the buffer is
\* sizeof(int) * capacity without wrap-around, so a successful create never
\* returns a buffer of fewer slots than the capacity asked for.
C10_NoSizeWrap ==
    (last.op = "init" /\ Len(last.log) >= 2)
    => /\ last.log[2].units = Capacity(last.args)
       /\ last.ret # NULL => Len(Buffer(last.ret)) >= Capacity(last.args)

====
